---- MODULE Spec2Model ----
(***************************************************************************)
(* Model of bitcoin/txn.py (class Txn): the transaction value type, its    *)
(* decoder (disassemble), its encoder (assemble) and its identity hash.    *)
(*                                                                         *)
(* Representation.                                                         *)
(*  - bytes objects are sequences over 0..255.                             *)
(*  - Python ints that travel through struct.pack / struct.unpack are      *)
(*    unbounded in Python and up to 2^64-1 here, beyond the integers TLC   *)
(*    evaluates; such an int is its little-endian base-256 digit sequence  *)
(*    with no most-significant zero digit (0 is <<>>).  pack pads it to    *)
(*    the field width, unpack strips the padding again.                    *)
(*  - lengths, counts, the position counter rc and block heights are       *)
(*    ordinary integers.                                                   *)
(*  - an instance attribute exists only once assigned; attrs is the set of *)
(*    attribute names present, and reading an absent one is Python's       *)
(*    AttributeError.                                                      *)
(*  - last is the outcome of the latest call on the instance (operation,   *)
(*    arguments, error raised, value returned, final position counter),    *)
(*    prev the call right before it when it is a successful assemble (and  *)
(*    blank otherwise), and given the constructor argument.  These record  *)
(*    what a caller observes; no method reads them.                        *)
(***************************************************************************)
EXTENDS Integers, Sequences, FiniteSets, TLC

VARIABLES attrs, data, txid, version, inputs, inputsType, outputs, locktime,
          last, prev, given

vars == <<attrs, data, txid, version, inputs, inputsType, outputs, locktime,
          last, prev, given>>

\* ------------------------------------------------------------------ bounds
MaxInputs == 2
MaxOutputs == 2

\* ------------------------------------------------------- bytes and numbers
HashLen == 32

Zeros(n) == [i \in 1..n |-> 0]

Min(a, b) == IF a < b THEN a ELSE b

\* Python's b[i:j] for 0 <= i <= j: clamped to the buffer, never an error.
Slice(b, i, j) == IF i >= Min(j, Len(b)) THEN <<>> ELSE SubSeq(b, i + 1, Min(j, Len(b)))

\* Python's b[i:]
From(b, i) == Slice(b, i, Len(b))

RECURSIVE Strip(_)
Strip(b) == IF b = <<>> THEN <<>>
            ELSE IF b[Len(b)] = 0 THEN Strip(SubSeq(b, 1, Len(b) - 1))
            ELSE b

RECURSIVE ToNum(_)
ToNum(i) == IF i = 0 THEN <<>> ELSE <<i % 256>> \o ToNum(i \div 256)

RECURSIVE ToInt(_)
ToInt(n) == IF n = <<>> THEN 0 ELSE n[1] + 256 * ToInt(Tail(n))

\* struct.pack('<B' | '<H' | '<L' | '<Q', n), w the width in bytes:
\* struct.error when n does not fit.
pack(w, n) == [ok |-> Len(n) <= w, bytes |-> n \o Zeros(w - Len(n))]

\* struct.unpack(...)[0]: struct.error unless the buffer has exactly w bytes.
unpack(w, b) == [ok |-> Len(b) = w, val |-> Strip(b)]

_nullprev == Zeros(HashLen)

FFFFFFFF == <<255, 255, 255, 255>>

\* util.dblsha: a collision-free digest, kept symbolic (the digest of b is
\* the tagged pair, equal for equal inputs and for no others).
dblsha(b) == <<"dblsha", b>>

\* bitcoin.varlen.varlenEncode: CompactSize, minimal length.
varlenEncode(n) ==
    IF n < 253 THEN <<n>>
    ELSE IF n <= 65535 THEN <<253>> \o pack(2, ToNum(n)).bytes
    ELSE <<254>> \o pack(4, ToNum(n)).bytes

\* bitcoin.varlen.varlenDecode(b, rc): the value, the remainder and the
\* advanced position counter; an error on an empty or short buffer.
varlenDecode(b, rc) ==
    IF b = <<>> THEN [err |-> "IndexError", val |-> 0, rest |-> <<>>, rc |-> rc]
    ELSE LET w == CASE b[1] = 255 -> 8 [] b[1] = 254 -> 4 [] b[1] = 253 -> 2 [] OTHER -> 0
         IN IF w = 0 THEN [err |-> "", val |-> b[1], rest |-> From(b, 1), rc |-> rc + 1]
            ELSE LET u == unpack(w, Slice(b, 1, 1 + w))
                 IN IF ~u.ok THEN [err |-> "struct.error", val |-> 0, rest |-> <<>>, rc |-> rc + 1 + w]
                    ELSE [err |-> "", val |-> ToInt(u.val), rest |-> From(b, 1 + w), rc |-> rc + 1 + w]

\* bitcoin.script.encodeUNum: the minimal-length push of an unsigned number.
RECURSIVE UNumDigits(_)
UNumDigits(n) == IF n > 127 THEN <<n % 256>> \o UNumDigits(n \div 256) ELSE <<n>>

encodeUNum(n) == <<Len(UNumDigits(n))>> \o UNumDigits(n)

\* ----------------------------------------------------------------- decode
\* One pass of the input loop of disassemble on the remaining buffer.
ParseInput_SeqnoNotCounted(d, rc) ==
    LET idx == unpack(4, Slice(d, 32, 36))
    IN IF ~idx.ok THEN [err |-> "struct.error", item |-> <<>>, data |-> d, rc |-> rc]
       ELSE LET prevout == <<Slice(d, 0, 32), idx.val>>
                v == varlenDecode(From(d, 36), rc + 36)
            IN IF v.err # "" THEN [err |-> v.err, item |-> <<>>, data |-> d, rc |-> v.rc]
               ELSE LET sigScriptLen == v.val
                        sigScript == Slice(v.rest, 0, sigScriptLen)
                        seqno == unpack(4, Slice(v.rest, sigScriptLen, sigScriptLen + 4))
                    IN IF ~seqno.ok
                       THEN [err |-> "struct.error", item |-> <<>>, data |-> v.rest, rc |-> v.rc]
                       ELSE [err |-> "", item |-> <<prevout, sigScript, seqno.val>>,
                             data |-> From(v.rest, sigScriptLen + 4),
                             rc |-> v.rc + sigScriptLen]

ParseInput(d, rc) ==
    LET idx == unpack(4, Slice(d, 32, 36))
    IN IF ~idx.ok THEN [err |-> "struct.error", item |-> <<>>, data |-> d, rc |-> rc]
       ELSE LET prevout == <<Slice(d, 0, 32), idx.val>>
                v == varlenDecode(From(d, 36), rc + 36)
            IN IF v.err # "" THEN [err |-> v.err, item |-> <<>>, data |-> d, rc |-> v.rc]
               ELSE LET sigScriptLen == v.val
                        sigScript == Slice(v.rest, 0, sigScriptLen)
                        seqno == unpack(4, Slice(v.rest, sigScriptLen, sigScriptLen + 4))
                    IN IF ~seqno.ok
                       THEN [err |-> "struct.error", item |-> <<>>, data |-> v.rest, rc |-> v.rc]
                       ELSE [err |-> "", item |-> <<prevout, sigScript, seqno.val>>,
                             data |-> From(v.rest, sigScriptLen + 4),
                             rc |-> v.rc + sigScriptLen + 4]

\* The input loop: inputCount passes, each appending to the local list.
RECURSIVE ParseInputs_Prepend(_, _, _, _)
ParseInputs_Prepend(n, acc, d, rc) ==
    IF n = 0 THEN [err |-> "", items |-> acc, data |-> d, rc |-> rc]
    ELSE LET p == ParseInput(d, rc)
         IN IF p.err # "" THEN [err |-> p.err, items |-> acc, data |-> p.data, rc |-> p.rc]
            ELSE ParseInputs_Prepend(n - 1, <<p.item>> \o acc, p.data, p.rc)

RECURSIVE ParseInputs(_, _, _, _)
ParseInputs(n, acc, d, rc) ==
    IF n = 0 THEN [err |-> "", items |-> acc, data |-> d, rc |-> rc]
    ELSE LET p == ParseInput(d, rc)
         IN IF p.err # "" THEN [err |-> p.err, items |-> acc, data |-> p.data, rc |-> p.rc]
            ELSE ParseInputs(n - 1, Append(acc, p.item), p.data, p.rc)

\* One pass of the output loop.
ParseOutput(d, rc) ==
    LET amount == unpack(8, Slice(d, 0, 8))
    IN IF ~amount.ok THEN [err |-> "struct.error", item |-> <<>>, data |-> d, rc |-> rc]
       ELSE LET v == varlenDecode(From(d, 8), rc + 8)
            IN IF v.err # "" THEN [err |-> v.err, item |-> <<>>, data |-> d, rc |-> v.rc]
               ELSE LET pkScriptLen == v.val
                    IN [err |-> "", item |-> <<amount.val, Slice(v.rest, 0, pkScriptLen)>>,
                        data |-> From(v.rest, pkScriptLen), rc |-> v.rc + pkScriptLen]

RECURSIVE ParseOutputs(_, _, _, _)
ParseOutputs(n, acc, d, rc) ==
    IF n = 0 THEN [err |-> "", items |-> acc, data |-> d, rc |-> rc]
    ELSE LET p == ParseOutput(d, rc)
         IN IF p.err # "" THEN [err |-> p.err, items |-> acc, data |-> p.data, rc |-> p.rc]
            ELSE ParseOutputs(n - 1, Append(acc, p.item), p.data, p.rc)

\* The locktime read.
ReadLocktime_Lenient(d) == [ok |-> TRUE, val |-> Strip(Slice(d, 0, 4))]

ReadLocktime(d) == unpack(4, Slice(d, 0, 4))

\* The strict-mode check on what is left at the locktime.
NoTrailingData_AtLeast(d) == Len(d) >= 4

NoTrailingData(d) == Len(d) = 4

\* What one call of disassemble does to its buffer is a record: the error it
\* ends in ("" for none), how many of its assignments ran before that (stage:
\* 1 version, 2 inputs, 3 outputs, 4 locktime, 5 data), the values assigned,
\* the value returned and the position counter.
NoRun(buf) ==
    [err |-> "", stage |-> 0, version |-> <<>>, inputs |-> <<>>, outputs |-> <<>>,
     locktime |-> <<>>, data |-> buf, ret |-> <<>>, rc |-> 0]

Raise(r, err, rc) == [r EXCEPT !.err = err, !.rc = rc]

\* After the locktime is stored: the strict check, or the consistency check,
\* the truncation of the raw bytes and the returned suffix.  rest is the local
\* data, which starts at the locktime.
DecodeTail(buf, retExtra, r, rest) ==
    IF ~retExtra
    THEN IF NoTrailingData(rest) THEN r ELSE Raise(r, "AssertionError", r.rc)
    ELSE IF rest # From(buf, r.rc) THEN Raise(r, "AssertionError", r.rc)
         ELSE [r EXCEPT !.stage = 5, !.rc = r.rc + 4,
                        !.data = Slice(buf, 0, r.rc + 4), !.ret = From(rest, 4)]

\* self.locktime = unpack(...), lt the outcome of the read.
DecodeLocktime(buf, retExtra, r, rest, lt) ==
    IF ~lt.ok THEN Raise(r, "struct.error", r.rc)
    ELSE DecodeTail(buf, retExtra, [r EXCEPT !.stage = 4, !.locktime = lt.val], rest)

\* self.outputs = outputs, pout the outcome of the output loop.
StoreOutputs(buf, retExtra, r, pout) ==
    IF pout.err # "" THEN Raise(r, pout.err, pout.rc)
    ELSE DecodeLocktime(buf, retExtra,
                        [r EXCEPT !.stage = 3, !.outputs = pout.items, !.rc = pout.rc],
                        pout.data, ReadLocktime(pout.data))

\* The output count oc, then the output loop.
DecodeOutputs(buf, retExtra, r, oc) ==
    IF oc.err # "" THEN Raise(r, oc.err, oc.rc)
    ELSE StoreOutputs(buf, retExtra, r, ParseOutputs(oc.val, <<>>, oc.rest, oc.rc))

\* self.inputs = inputs, pin the outcome of the input loop.
StoreInputs(buf, retExtra, r, pin) ==
    IF pin.err # "" THEN Raise(r, pin.err, pin.rc)
    ELSE DecodeOutputs(buf, retExtra,
                       [r EXCEPT !.stage = 2, !.inputs = pin.items, !.rc = pin.rc],
                       varlenDecode(pin.data, pin.rc))

\* The input count ic, then the input loop.
DecodeInputs(buf, retExtra, r, ic) ==
    IF ic.err # "" THEN Raise(r, ic.err, ic.rc)
    ELSE StoreInputs(buf, retExtra, r, ParseInputs(ic.val, <<>>, ic.rest, ic.rc))

\* self.version = unpack(...), ver the outcome of the read; rc = [4].
DecodeVersion(buf, retExtra, ver) ==
    IF ~ver.ok THEN Raise(NoRun(buf), "struct.error", 0)
    ELSE DecodeInputs(buf, retExtra,
                      [NoRun(buf) EXCEPT !.stage = 1, !.version = ver.val, !.rc = 4],
                      varlenDecode(From(buf, 4), 4))

DisassembleRun(buf, retExtra) == DecodeVersion(buf, retExtra, unpack(4, Slice(buf, 0, 4)))

\* ----------------------------------------------------------------- encode
AssembleInput(i) ==
    LET prevout == i[1]
        idx == pack(4, prevout[2])
        seqno == pack(4, i[3])
    IN [ok |-> idx.ok /\ seqno.ok,
        bytes |-> prevout[1] \o idx.bytes \o varlenEncode(Len(i[2])) \o i[2] \o seqno.bytes]

AssembleOutput_ShortAmount(o) ==
    LET amount == pack(4, o[1])
    IN [ok |-> amount.ok, bytes |-> amount.bytes \o varlenEncode(Len(o[2])) \o o[2]]

AssembleOutput(o) ==
    LET amount == pack(8, o[1])
    IN [ok |-> amount.ok, bytes |-> amount.bytes \o varlenEncode(Len(o[2])) \o o[2]]

RECURSIVE AssembleInputs(_)
AssembleInputs(ins) ==
    IF ins = <<>> THEN [ok |-> TRUE, bytes |-> <<>>]
    ELSE LET h == AssembleInput(Head(ins))
             t == AssembleInputs(Tail(ins))
         IN [ok |-> h.ok /\ t.ok, bytes |-> h.bytes \o t.bytes]

RECURSIVE AssembleOutputs(_)
AssembleOutputs(outs) ==
    IF outs = <<>> THEN [ok |-> TRUE, bytes |-> <<>>]
    ELSE LET h == AssembleOutput(Head(outs))
             t == AssembleOutputs(Tail(outs))
         IN [ok |-> h.ok /\ t.ok, bytes |-> h.bytes \o t.bytes]

\* The byte string assemble builds from the four fields (struct.error when a
\* number does not fit its field).
AssembleRun(ver, ins, outs, lt) ==
    LET v == pack(4, ver)
        i == AssembleInputs(ins)
        o == AssembleOutputs(outs)
        l == pack(4, lt)
    IN [ok |-> v.ok /\ i.ok /\ o.ok /\ l.ok,
        bytes |-> v.bytes \o varlenEncode(Len(ins)) \o i.bytes
                  \o varlenEncode(Len(outs)) \o o.bytes \o l.bytes]

\* ----------------------------------------------------------- the instance
Fields == {"version", "inputs", "outputs", "locktime"}

Result(op, args, err, ret, rc) ==
    [op |-> op, args |-> args, ok |-> err = "", err |-> err, ret |-> ret, rc |-> rc]

\* What prev keeps of the call before an assemble: the operation, whether it
\* raised, and for disassemble its retExtra argument.
Call(r) == [op |-> r.op, mode |-> IF r.op = "disassemble" THEN r.args ELSE <<>>, ok |-> r.ok]

NoCall == [op |-> "", mode |-> <<>>, ok |-> TRUE]

\* Txn.isCoinbase and Txn.getCoinbase on the current inputs.
isCoinbase == Len(inputs) = 1 /\ inputs[1][1] = <<_nullprev, FFFFFFFF>>

getCoinbase == inputs[1][2]

\* ------------------------------------------------------------ input domain
Spaces == [i \in 1..HashLen |-> 32]

INPUT == <<73, 78, 80, 85, 84>>

OUTPUT == <<79, 85, 84, 80, 85, 84>>

COINBASE == <<67, 79, 73, 78, 66, 65, 83, 69>>

U64Max == [i \in 1..8 |-> 255]

SeqsUpTo(S, n) == UNION {[1..k -> S] : k \in 0..n}

\* (prevout, sigScript, seqno) triples handed to addInput.
InputChoices ==
    { <<<<Spaces, ToNum(0)>>, INPUT, FFFFFFFF>>,
      <<<<_nullprev, FFFFFFFF>>, <<>>, ToNum(0)>> }

\* (amount, pkScript) pairs handed to addOutput.
OutputChoices == { <<ToNum(65536), OUTPUT>>, <<U64Max, <<>>>> }

\* (sigScript, seqno, height) handed to setCoinbase; height <<>> is None.
CoinbaseChoices ==
    { <<COINBASE, FFFFFFFF, <<>>>>,
      <<COINBASE, ToNum(0), <<0>>>>,
      <<<<>>, FFFFFFFF, <<128>>>>,
      <<<<>>, ToNum(7), <<>>>>,
      <<COINBASE, FFFFFFFF, <<65536>>>> }

Txn(ver, ins, outs, lt) == [version |-> ver, inputs |-> ins, outputs |-> outs, locktime |-> lt]

\* A transaction whose one script needs a three-byte length prefix.
LongScriptTxn == Txn(ToNum(2), <<>>, << <<ToNum(1), [i \in 1..253 |-> 172]>> >>, FFFFFFFF)

TxnChoices ==
    { Txn(ToNum(1), ins, outs, ToNum(0)) :
        ins \in SeqsUpTo(InputChoices, MaxInputs), outs \in SeqsUpTo(OutputChoices, MaxOutputs) }
    \cup {LongScriptTxn}

\* The canonical serialization of a transaction: the byte layout table.
RECURSIVE Concat(_)
Concat(ss) == IF ss = <<>> THEN <<>> ELSE Head(ss) \o Concat(Tail(ss))

WireInput(i) ==
    i[1][1] \o i[1][2] \o Zeros(4 - Len(i[1][2])) \o varlenEncode(Len(i[2])) \o i[2]
    \o i[3] \o Zeros(4 - Len(i[3]))

WireOutput(o) == o[1] \o Zeros(8 - Len(o[1])) \o varlenEncode(Len(o[2])) \o o[2]

Wire(t) ==
    t.version \o Zeros(4 - Len(t.version))
    \o varlenEncode(Len(t.inputs)) \o Concat([k \in 1..Len(t.inputs) |-> WireInput(t.inputs[k])])
    \o varlenEncode(Len(t.outputs)) \o Concat([k \in 1..Len(t.outputs) |-> WireOutput(t.outputs[k])])
    \o t.locktime \o Zeros(4 - Len(t.locktime))

\* Bytes that may follow a transaction in a larger buffer: one byte, a
\* second (empty) transaction, a run of 0xff.
Extras == { <<0>>, Wire(Txn(ToNum(1), <<>>, <<>>, ToNum(0))), <<255, 255, 255, 255, 255>> }

\* ------------------------------------------------------------ construction
\* Txn(data): the bytes are kept and hashed only when data is non-empty.
InitBytes ==
    \E t \in TxnChoices :
      \E D \in {Wire(t)} \cup {Wire(t) \o X : X \in Extras}
               \cup {Slice(Wire(t), 0, k) : k \in 0..(Len(Wire(t)) - 1)} :
        /\ given = [ctor |-> "Txn", tx |-> t, B |-> Wire(t), D |-> D,
                    X |-> From(D, Len(Wire(t)))]
        /\ attrs = IF D # <<>> THEN {"data", "txid"} ELSE {}
        /\ data = D
        /\ txid = IF D # <<>> THEN dblsha(D) ELSE <<>>
        /\ version = <<>>
        /\ inputs = <<>>
        /\ inputsType = "list"
        /\ outputs = <<>>
        /\ locktime = <<>>
        /\ last = Result("__init__", <<>>, "", <<>>, 0)
        /\ prev = NoCall

\* Txn.new()
InitNew ==
    /\ given = [ctor |-> "new", tx |-> Txn(ToNum(1), <<>>, <<>>, ToNum(0)),
                B |-> <<>>, D |-> <<>>, X |-> <<>>]
    /\ attrs = Fields
    /\ data = <<>>
    /\ txid = <<>>
    /\ version = ToNum(1)
    /\ inputs = <<>>
    /\ inputsType = "list"
    /\ outputs = <<>>
    /\ locktime = ToNum(0)
    /\ last = Result("new", <<>>, "", <<>>, 0)
    /\ prev = NoCall

\* -------------------------------------------------------------- operations
Fail(op, args, err) ==
    /\ last' = Result(op, args, err, <<>>, 0)
    /\ UNCHANGED <<attrs, data, txid, version, inputs, inputsType, outputs, locktime, given>>
    /\ prev' = NoCall

CoinbaseScript_Truthy(sigScript, height) ==
    IF height # <<>> /\ height # <<0>> THEN encodeUNum(height[1]) \o sigScript ELSE sigScript

CoinbaseScript(sigScript, height) ==
    IF height # <<>> THEN encodeUNum(height[1]) \o sigScript ELSE sigScript

SetCoinbase(sigScript, seqno, height) ==
    /\ inputs' = << <<<<_nullprev, FFFFFFFF>>, CoinbaseScript(sigScript, height), seqno>> >>
    /\ inputsType' = "tuple"
    /\ attrs' = attrs \cup {"inputs"}
    /\ last' = Result("setCoinbase", <<sigScript, seqno, height>>, "", <<>>, 0)
    /\ UNCHANGED <<data, txid, version, outputs, locktime, given>>
    /\ prev' = NoCall

AddInput(prevout, sigScript, seqno) ==
    /\ Len(inputs) < MaxInputs
    /\ IF "inputs" \notin attrs \/ inputsType # "list"
       THEN Fail("addInput", <<prevout, sigScript, seqno>>, "AttributeError")
       ELSE /\ inputs' = Append(inputs, <<prevout, sigScript, seqno>>)
            /\ last' = Result("addInput", <<prevout, sigScript, seqno>>, "", <<>>, 0)
            /\ UNCHANGED <<attrs, data, txid, version, inputsType, outputs, locktime, given>>
            /\ prev' = NoCall

AddOutput(amount, pkScript) ==
    /\ Len(outputs) < MaxOutputs
    /\ IF "outputs" \notin attrs
       THEN Fail("addOutput", <<amount, pkScript>>, "AttributeError")
       ELSE /\ outputs' = Append(outputs, <<amount, pkScript>>)
            /\ last' = Result("addOutput", <<amount, pkScript>>, "", <<>>, 0)
            /\ UNCHANGED <<attrs, data, txid, version, inputs, inputsType, locktime, given>>
            /\ prev' = NoCall

\* The assignments of one disassemble call whose run is r.
DisassembleEffect_Rehash(r, retExtra) ==
    /\ attrs' = attrs \cup (IF r.stage >= 1 THEN {"version"} ELSE {})
                      \cup (IF r.stage >= 2 THEN {"inputs"} ELSE {})
                      \cup (IF r.stage >= 3 THEN {"outputs"} ELSE {})
                      \cup (IF r.stage >= 4 THEN {"locktime"} ELSE {})
    /\ version' = IF r.stage >= 1 THEN r.version ELSE version
    /\ inputs' = IF r.stage >= 2 THEN r.inputs ELSE inputs
    /\ inputsType' = IF r.stage >= 2 THEN "list" ELSE inputsType
    /\ outputs' = IF r.stage >= 3 THEN r.outputs ELSE outputs
    /\ locktime' = IF r.stage >= 4 THEN r.locktime ELSE locktime
    /\ data' = IF r.stage >= 5 THEN r.data ELSE data
    /\ txid' = IF r.stage >= 5 THEN dblsha(r.data) ELSE txid
    /\ last' = Result("disassemble", <<retExtra>>, r.err, r.ret, r.rc)
    /\ prev' = NoCall
    /\ UNCHANGED given

DisassembleEffect(r, retExtra) ==
    /\ attrs' = attrs \cup (IF r.stage >= 1 THEN {"version"} ELSE {})
                      \cup (IF r.stage >= 2 THEN {"inputs"} ELSE {})
                      \cup (IF r.stage >= 3 THEN {"outputs"} ELSE {})
                      \cup (IF r.stage >= 4 THEN {"locktime"} ELSE {})
    /\ version' = IF r.stage >= 1 THEN r.version ELSE version
    /\ inputs' = IF r.stage >= 2 THEN r.inputs ELSE inputs
    /\ inputsType' = IF r.stage >= 2 THEN "list" ELSE inputsType
    /\ outputs' = IF r.stage >= 3 THEN r.outputs ELSE outputs
    /\ locktime' = IF r.stage >= 4 THEN r.locktime ELSE locktime
    /\ data' = IF r.stage >= 5 THEN r.data ELSE data
    /\ txid' = txid
    /\ last' = Result("disassemble", <<retExtra>>, r.err, r.ret, r.rc)
    /\ prev' = NoCall
    /\ UNCHANGED given

Disassemble(retExtra) ==
    IF "data" \notin attrs
    THEN Fail("disassemble", <<retExtra>>, "AttributeError")
    ELSE DisassembleEffect(DisassembleRun(data, retExtra), retExtra)

Assemble ==
    IF ~(Fields \subseteq attrs)
    THEN Fail("assemble", <<>>, "AttributeError")
    ELSE LET r == AssembleRun(version, inputs, outputs, locktime)
         IN IF ~r.ok THEN Fail("assemble", <<>>, "struct.error")
            ELSE /\ data' = r.bytes
                 /\ txid' = dblsha(r.bytes)
                 /\ attrs' = attrs \cup {"data", "txid"}
                 /\ last' = Result("assemble", <<>>, "", <<>>, 0)
                 /\ prev' = Call(last)
                 /\ UNCHANGED <<version, inputs, inputsType, outputs, locktime, given>>

Idhash ==
    IF "data" \notin attrs
    THEN Fail("idhash", <<>>, "AttributeError")
    ELSE /\ txid' = dblsha(data)
         /\ attrs' = attrs \cup {"txid"}
         /\ last' = Result("idhash", <<>>, "", <<>>, 0)
         /\ UNCHANGED <<data, version, inputs, inputsType, outputs, locktime, given>>
         /\ prev' = NoCall

\* ---------------------------------------------------------- specifications
\* A transaction received as bytes: decoded, re-encoded, re-hashed.
NextBytes ==
    \/ \E retExtra \in BOOLEAN : Disassemble(retExtra)
    \/ Assemble
    \/ Idhash

SpecBytes == InitBytes /\ [][NextBytes]_vars

\* A transaction built field by field from Txn.new().
NextNew ==
    \/ \E c \in CoinbaseChoices : SetCoinbase(c[1], c[2], c[3])
    \/ \E i \in InputChoices : AddInput(i[1], i[2], i[3])
    \/ \E o \in OutputChoices : AddOutput(o[1], o[2])
    \/ \E retExtra \in BOOLEAN : Disassemble(retExtra)
    \/ Assemble
    \/ Idhash

SpecNew == InitNew /\ [][NextNew]_vars

\* ------------------------------------------------------------- properties
\* How the constructor argument relates to the canonical serialization B.
GivenCanonical == given.ctor = "Txn" /\ given.D = given.B

GivenTrailing == given.ctor = "Txn" /\ Len(given.D) > Len(given.B)

GivenTruncated == given.ctor = "Txn" /\ Len(given.D) < Len(given.B)

\* C1: a Txn constructed from a canonical serialization B, decoded in strict
\* mode and then re-encoded holds raw bytes equal to B, and its inputs and
\* outputs are those B encodes, in B's order.
RoundTripFromBytes ==
    (/\ GivenCanonical
     /\ last.op = "assemble" /\ last.ok
     /\ prev.op = "disassemble" /\ prev.mode = <<FALSE>> /\ prev.ok)
    => /\ data = given.B
       /\ inputs = given.tx.inputs
       /\ outputs = given.tx.outputs

RoundTripFromBytesWitness ==
    /\ GivenCanonical
    /\ last.op = "assemble" /\ last.ok
    /\ prev.op = "disassemble" /\ prev.mode = <<FALSE>> /\ prev.ok
    /\ Len(inputs) = 2 /\ inputs[1] # inputs[2]
    /\ Len(outputs) = 2 /\ outputs[1] # outputs[2]
    /\ data = given.B

\* C2: whenever the transaction holds raw bytes, its identity hash is the
\* double hash of the raw bytes it holds now.
IdentityHashInvariant ==
    "data" \in attrs => ("txid" \in attrs /\ txid = dblsha(data))

\* C3: a disassemble call that ends in an error leaves version, inputs,
\* outputs, locktime, raw bytes and identity hash as they were before it.
DecodeFailureAtomic ==
    [][(last'.op = "disassemble" /\ ~last'.ok)
        => UNCHANGED <<attrs, version, inputs, outputs, locktime, data, txid>>]_vars

\* C4: strict disassemble of B ++ X with X non-empty ends in an error (the
\* failed assertion); strict disassemble of a canonical B returns.  Strict
\* mode never writes the raw bytes, so data is still the buffer decoded.
TrailingDataRejected ==
    (/\ given.ctor = "Txn"
     /\ last.op = "disassemble" /\ last.args = <<FALSE>>
     /\ "data" \in attrs /\ data = given.D)
    => /\ GivenTrailing => (~last.ok /\ last.err = "AssertionError")
       /\ GivenCanonical => last.ok

TrailingDataRejectedWitness ==
    /\ GivenTrailing
    /\ last.op = "disassemble" /\ last.args = <<FALSE>>
    /\ data = given.D
    /\ last.err = "AssertionError"
    /\ Len(inputs) >= 1

\* C5: disassemble(retExtra=True) of D = B ++ X (X possibly empty) returns X,
\* leaves the raw bytes equal to B and the position counter equal to len(B),
\* and does not fail; so the raw bytes followed by the returned suffix are D.
TrailingTolerantSplit ==
    [][(/\ last'.op = "disassemble" /\ last'.args = <<TRUE>>
        /\ given.ctor = "Txn" /\ Len(given.D) >= Len(given.B)
        /\ "data" \in attrs /\ data = given.D)
        => /\ last'.ok
           /\ last'.ret = given.X
           /\ data' = given.B
           /\ last'.rc = Len(given.B)
           /\ data' \o last'.ret = given.D]_vars

TrailingTolerantSplitWitness ==
    /\ GivenTrailing
    /\ last.op = "disassemble" /\ last.args = <<TRUE>> /\ last.ok
    /\ last.ret = given.X /\ Len(given.X) > 1
    /\ data = given.B
    /\ last.rc = Len(given.B)
    /\ Len(inputs) >= 1 /\ Len(outputs) >= 1

\* C6: disassemble, in either mode, of a strict prefix of a canonical
\* serialization ends in an error.
TruncatedInputRejected ==
    (/\ GivenTruncated
     /\ last.op = "disassemble"
     /\ ("data" \notin attrs \/ data = given.D))
    => ~last.ok

\* The decoder had already stored a silently shortened pkScript when it failed.
TruncatedInputRejectedWitness ==
    /\ GivenTruncated
    /\ last.op = "disassemble" /\ last.err = "struct.error"
    /\ data = given.D
    /\ "outputs" \in attrs /\ "locktime" \notin attrs
    /\ Len(outputs) = Len(given.tx.outputs)
    /\ outputs # given.tx.outputs

\* C7: every addInput call succeeds and makes the input sequence the previous
\* one followed by the new record.
AddInputAppends ==
    [][last'.op = "addInput" => (last'.ok /\ inputs' = Append(inputs, last'.args))]_vars

\* C8: setCoinbase(script, seqno, height) leaves exactly one input, with the
\* null previous output, sequence number seqno and unlocking script
\* encodeUNum(height) ++ script (script alone without a height); isCoinbase()
\* is then true, getCoinbase() is that script, and outputs, version and
\* locktime are unchanged.
SetCoinbasePostcondition ==
    [][last'.op = "setCoinbase"
        => LET sigScript == last'.args[1]
               seqno == last'.args[2]
               height == last'.args[3]
               script == IF height = <<>> THEN sigScript
                         ELSE encodeUNum(height[1]) \o sigScript
           IN /\ last'.ok
              /\ inputs' = << <<<<_nullprev, FFFFFFFF>>, script, seqno>> >>
              /\ isCoinbase'
              /\ getCoinbase' = script
              /\ UNCHANGED <<outputs, version, locktime>>]_vars

SetCoinbasePostconditionWitness ==
    /\ last.op = "setCoinbase" /\ last.args[3] = <<0>>
    /\ isCoinbase
    /\ getCoinbase = <<1, 0>> \o COINBASE
    /\ inputs[1][3] = ToNum(0)
    /\ Len(outputs) >= 1

\* C9: a Txn constructed from bytes D has identity hash dblsha(D); no
\* disassemble call, returning or failing, in either mode, changes the
\* identity hash; only assemble and idhash write it.
HashStableUnderDecode ==
    /\ "txid" \in attrs => txid = dblsha(given.D)
    /\ [][/\ last'.op = "disassemble" => (txid' = txid /\ ("txid" \in attrs') = ("txid" \in attrs))
          /\ txid' # txid => last'.op \in {"assemble", "idhash"}]_vars

HashStableUnderDecodeWitness ==
    /\ GivenTrailing
    /\ last.op = "disassemble" /\ last.args = <<TRUE>> /\ last.ok
    /\ data = given.B
    /\ txid = dblsha(given.D)

\* C10: for a transaction built from Txn.new by addInput, addOutput and
\* setCoinbase, disassemble right after assemble returns and restores the
\* version, inputs, outputs and locktime that were encoded, and assemble right
\* after that disassemble yields the same raw bytes and identity hash.
RoundTripFromFields ==
    [][/\ (last.op = "assemble" /\ last.ok /\ last'.op = "disassemble")
          => (last'.ok /\ UNCHANGED <<version, inputs, outputs, locktime, data, txid>>)
       /\ (last.op = "disassemble" /\ last.ok /\ last'.op = "assemble")
          => (last'.ok /\ data' = data /\ txid' = txid)]_vars

RoundTripFromFieldsWitness ==
    /\ given.ctor = "new"
    /\ last.op = "assemble" /\ last.ok
    /\ prev.op = "disassemble" /\ prev.ok
    /\ Len(inputs) = 2 /\ inputs[1] # inputs[2]
    /\ Len(outputs) >= 1
    /\ txid = dblsha(data)
    /\ data = AssembleRun(version, inputs, outputs, locktime).bytes

====
